---- MODULE Spec2Model ----
(***************************************************************************)
(* csv-prometheus-exporter: the TTL metric registry (src/prometheus), the  *)
(* line parser (src/parser) and the emission loop of the tailing workers   *)
(* (src/logscrape), as state machines.                                     *)
(*                                                                         *)
(* Spec        the registry: observation calls of the workers, the clock   *)
(*             and the gc() passes of the GC task.                         *)
(* SpecWorker  one worker inside _parse_file: the lines of its stream go   *)
(*             through the csv.reader and the readers of the schema, and   *)
(*             every item is recorded in the registry.                     *)
(* SpecThreads the run loops of the tailing worker threads.                *)
(* SpecConfig  parse_config: the configuration and the threads it starts.  *)
(* SpecCallers the registry under concurrent callers, step by step         *)
(*             through the ReadWriteLock.                                  *)
(***************************************************************************)
EXTENDS Integers, Sequences, FiniteSets, TLC

VARIABLES
    metrics,    \* prometheus._metrics: environment -> sub-registry (_MetricGC)
    envOrder,   \* insertion order of prometheus._metrics (list(_metrics.values()))
    active,     \* the value of the scraper_active_metrics gauge
    now,        \* time.time()
    gcTmp,      \* gc(): the sub-registries of `tmp` not yet passed; <<>> when no gc() runs
    calls,      \* number of observation calls made so far (bounds the model)
    last,       \* the last operation and how it ended
    readers,    \* LogParser._readers: the column schema of the worker
    environment,\* the environment the worker was configured with
    pfState,    \* _parse_file: "idle", "running", "returned" or "raised"
    pfErr,      \* the error that left _parse_file ("none" when none did)
    reader,     \* the csv.reader of the LogParser: its state between two lines
    plabels,    \* LogParser._labels: the dict every Metric of the parser shares
    linesRead,  \* number of lines the csv.reader took from the stream
    nonEmpty,   \* number of those lines that were not empty
    items,      \* number of items read_all yielded
    pc,         \* per worker thread: where its run() is
    stop_me,    \* per worker thread: StoppableThread.stop_me
    connected,  \* per worker thread: LogThread._connected
    sleeping,   \* per worker thread: the seconds of the sleep() it is in (0: none)
    cause,      \* per worker thread: the last outcome of its spawn, connect or session
    interrupted,\* _thread.interrupt_main() was called
    process,    \* "running" or "exited"
    scrape_config, \* app.scrape_config: the loaded configuration
    started,    \* parse_config: how it ended, the readers and the threads started
    tpc,        \* per calling thread: where it is in its registry operation
    top,        \* per calling thread: the operation it runs
    tleft,      \* per calling thread: the operations it may still begin
    tloc,       \* per calling thread: its locals (the sub-registry and family it got)
    lock_owner, \* _metrics_lock._read_ready: the thread that owns its RLock ("" when free)
    lock_readers, \* _metrics_lock._readers
    registered, \* per sub-registry: the family names its CollectorRegistry holds
    ncreated    \* per environment: the number of _MetricGC objects created for it

regVars == <<metrics, envOrder, active, now, gcTmp, calls>>

workerVars ==
    <<readers, environment, pfState, pfErr, reader, plabels, linesRead, nonEmpty, items>>

threadVars == <<pc, stop_me, connected, sleeping, cause, interrupted, process>>

configVars == <<scrape_config, started>>

lockVars ==
    <<tpc, top, tleft, tloc, lock_owner, lock_readers, registered, ncreated>>

vars == <<regVars, last, workerVars, threadVars, configVars, lockVars>>

----------------------------------------------------------------------------
(* Bounds *)

MaxCalls == 3
MaxTime == 2
MaxLines == 2
MaxLineLen == 3
MaxCols == 2
MaxTargets == 2
MaxRepeat == 2
MaxOps == 1

(* prometheus._current_ttl *)
TTL == 1

ENVIRONMENT == "environment"

Envs == {"p", "s"}
Names == {"m"}
LabelValues == {"a", "b"}
Amounts == {1, 2}

(* The label dicts the callers pass: every one carries `environment`; the *)
(* calls for "p" come with and without the label l, those for "s" without. *)
LabelMaps ==
    {[environment |-> e] : e \in Envs}
    \cup {[environment |-> "p", l |-> v] : v \in LabelValues}

----------------------------------------------------------------------------
(* dict helpers *)

EmptyMap == [x \in {} |-> 0]

Put(f, k, v) == [x \in (DOMAIN f) \cup {k} |-> IF x = k THEN v ELSE f[x]]

Drop(f, k) == [x \in (DOMAIN f) \ {k} |-> f[x]]

Restrict(f, S) == [x \in S |-> f[x]]

----------------------------------------------------------------------------
(* prometheus_client metric families, as the registry uses them.           *)
(* A family: its kind, its label names, and its children by label values.  *)
(* A child: sum is the value of a counter or gauge (count stays 0), and    *)
(* count/sum are the observation count and sum of a histogram.             *)

NewFamily(kind, labels) ==
    [kind |-> kind, labelnames |-> DOMAIN labels, series |-> EmptyMap]

ZeroChild == [count |-> 0, sum |-> 0]

(* family.labels(..): ValueError when the names differ from the      *)
(* family's, else the child, created at zero when it is new.               *)
LabelsOk(fam, labels) == DOMAIN labels = fam.labelnames

WithChild(fam, labels) ==
    IF labels \in DOMAIN fam.series
    THEN fam
    ELSE [fam EXCEPT !.series = Put(fam.series, labels, ZeroChild)]

SetChild(fam, labels, child) ==
    [fam EXCEPT !.series = Put(fam.series, labels, child)]

(* The sub-registry: _metrics_ttl (an insertion-ordered dict, as a         *)
(* sequence of entries) and _metrics (name -> family).                     *)
NewMetricGC == [ttl |-> <<>>, fams |-> EmptyMap]

TtlIndex(r, key) ==
    IF \E i \in 1..Len(r.ttl) : r.ttl[i].key = key
    THEN CHOOSE i \in 1..Len(r.ttl) : r.ttl[i].key = key
    ELSE 0

Tracked(r, key) == TtlIndex(r, key) # 0

(* self._metrics_ttl[key] = (family, time.time()) *)
Touch(r, key, t) ==
    IF Tracked(r, key)
    THEN [r EXCEPT !.ttl[TtlIndex(r, key)].last = t]
    ELSE [r EXCEPT !.ttl = Append(r.ttl, [key |-> key, last |-> t])]

(* self._metrics.get(full_name), created with the call's kind when absent *)
FamilyOf(r, name, kind, labels) ==
    IF name \in DOMAIN r.fams THEN r.fams[name] ELSE NewFamily(kind, labels)

(* A sample value is a Python float. The number n + f * 2^-52, n whole and *)
(* f a count of units in the last place of 1.0, is written n + f * ULP;    *)
(* a negative number is whole. Whole values stay far below ULP.            *)
ULP == 65536

(* The spacing of the floats around n, in units of 2^-52: the greatest     *)
(* power of two not above n.                                               *)
RECURSIVE Spacing(_)
Spacing(n) == IF n < 2 THEN 1 ELSE 2 * Spacing(n \div 2)

(* n + f * 2^-52 with f rounded to a multiple of the spacing u, ties to    *)
(* the even multiple.                                                      *)
RoundTo(n, f, u) ==
    n + ULP * u * (IF 2 * (f % u) > u \/ (2 * (f % u) = u /\ (f \div u) % 2 = 1)
                   THEN f \div u + 1
                   ELSE f \div u)

(* The float nearest to the exact number x; a whole number is a float *)
RoundFloat(x) ==
    IF x < ULP THEN x ELSE RoundTo(x % ULP, x \div ULP, Spacing(x % ULP))

(* value + amount and k * amount in float arithmetic: the exact result,    *)
(* rounded once.                                                           *)
FloatAdd(x, y) == RoundFloat(x + y)

FloatMul(k, x) == RoundFloat(k * x)

(* family.labels(..).<method>(amount): the family afterwards and the *)
(* error raised ("none" when the call returns).                            *)
Apply(fam, method, labels, amount) ==
    IF ~LabelsOk(fam, labels)
    THEN [fam |-> fam, err |-> "ValueError"]
    ELSE LET f1 == WithChild(fam, labels)
             c  == f1.series[labels]
         IN CASE method = "inc" /\ fam.kind = "counter" ->
                    IF amount < 0
                    THEN [fam |-> f1, err |-> "ValueError"]
                    ELSE [fam |-> SetChild(f1, labels, [c EXCEPT !.sum = FloatAdd(@, amount)]),
                          err |-> "none"]
              [] method = "inc" /\ fam.kind = "gauge" ->
                    [fam |-> SetChild(f1, labels, [c EXCEPT !.sum = FloatAdd(@, amount)]),
                     err |-> "none"]
              [] method = "set" /\ fam.kind = "gauge" ->
                    [fam |-> SetChild(f1, labels, [c EXCEPT !.sum = amount]),
                     err |-> "none"]
              [] method = "observe" /\ fam.kind = "histogram" ->
                    [fam |-> SetChild(f1, labels,
                                [count |-> c.count + 1, sum |-> FloatAdd(c.sum, amount)]),
                     err |-> "none"]
              [] OTHER -> [fam |-> f1, err |-> "AttributeError"]

(* An inc that counts the series as new on every call *)
IncCountsEveryCall(r, name, labels, amount, t) ==
    LET counter == FamilyOf(r, name, "counter", labels)
        key == <<name, labels>>
        res == Apply(counter, "inc", labels, amount)
    IN [reg |-> [Touch(r, key, t) EXCEPT !.fams = Put(r.fams, name, res.fam)],
        inc |-> 1,
        err |-> res.err]

(* _MetricGC.inc: the sub-registry afterwards, the change of the           *)
(* scraper_active_metrics gauge and the error raised.                      *)
Inc(r, name, labels, amount, t) ==
    LET counter == FamilyOf(r, name, "counter", labels)
        key == <<name, labels>>
        res == Apply(counter, "inc", labels, amount)
    IN [reg |-> [Touch(r, key, t) EXCEPT !.fams = Put(r.fams, name, res.fam)],
        inc |-> IF Tracked(r, key) THEN 0 ELSE 1,
        err |-> res.err]

(* _MetricGC.set_gauge *)
SetGauge(r, name, labels, value, t) ==
    LET gauge == FamilyOf(r, name, "gauge", labels)
        key == <<name, labels>>
        res == Apply(gauge, "set", labels, value)
    IN [reg |-> [Touch(r, key, t) EXCEPT !.fams = Put(r.fams, name, res.fam)],
        inc |-> IF Tracked(r, key) THEN 0 ELSE 1,
        err |-> res.err]

(* _MetricGC.observe: the store and the observation are nested in the     *)
(* `if key not in self._metrics_ttl` branch.                               *)
Observe(r, name, labels, value, t) ==
    LET histogram == FamilyOf(r, name, "histogram", labels)
        key == <<name, labels>>
        res == Apply(histogram, "observe", labels, value)
        r1 == [r EXCEPT !.fams = Put(r.fams, name, histogram)]
    IN IF Tracked(r, key)
       THEN [reg |-> r1, inc |-> 0, err |-> "none"]
       ELSE [reg |-> [Touch(r, key, t) EXCEPT !.fams = Put(r.fams, name, res.fam)],
             inc |-> 1,
             err |-> res.err]

----------------------------------------------------------------------------
(* _MetricGC.gc *)

Expired(entry, t) == entry.last + TTL < t

(* The scan of self._metrics_ttl from entry i on. `strict` is the          *)
(* prometheus_client build: family.remove of label values the family does  *)
(* not hold raises KeyError (del on the child dict) or does nothing.       *)
RECURSIVE GcScan(_, _, _, _, _, _, _)
GcScan(ttl, i, fams, cleaned, dropped, t, strict) ==
    IF i > Len(ttl)
    THEN [fams |-> fams, cleaned |-> cleaned, dropped |-> dropped, err |-> "none"]
    ELSE LET entry == ttl[i]
             name == entry.key[1]
             labels == entry.key[2]
             metric == fams[name]
             raised == [fams |-> fams, cleaned |-> cleaned, dropped |-> dropped,
                        err |-> "KeyError"]
         IN IF Expired(entry, t)
            THEN IF ~(metric.labelnames \subseteq DOMAIN labels)
                 THEN raised
                 ELSE LET values == Restrict(labels, metric.labelnames)
                      IN IF values \in DOMAIN metric.series
                         THEN GcScan(ttl, i + 1,
                                     Put(fams, name,
                                         [metric EXCEPT !.series = Drop(@, values)]),
                                     cleaned, dropped + 1, t, strict)
                         ELSE IF strict
                              THEN raised
                              ELSE GcScan(ttl, i + 1, fams, cleaned, dropped + 1,
                                          t, strict)
            ELSE GcScan(ttl, i + 1, fams, Append(cleaned, entry), dropped, t, strict)

(* One pass over a sub-registry: the sub-registry afterwards, the value    *)
(* the scraper_active_metrics gauge is set to (given its value before)     *)
(* and the error raised. A KeyError leaves self._metrics_ttl as it was.    *)
Gc(r, gauge, t, strict) ==
    LET scan == GcScan(r.ttl, 1, r.fams, <<>>, 0, t, strict)
    IN IF scan.err = "none"
       THEN [reg |-> [ttl |-> scan.cleaned, fams |-> scan.fams],
             active |-> Len(scan.cleaned),
             dropped |-> scan.dropped,
             err |-> "none"]
       ELSE [reg |-> [ttl |-> r.ttl, fams |-> scan.fams],
             active |-> gauge,
             dropped |-> scan.dropped,
             err |-> scan.err]

----------------------------------------------------------------------------
(* The module-level registry *)

(* _get_metrics(key): the defaultdict creates the sub-registry on first use *)
GetMetrics(m, env) == IF env \in DOMAIN m THEN m[env] ELSE NewMetricGC

Created(order, env) ==
    IF \E i \in 1..Len(order) : order[i] = env THEN order ELSE Append(order, env)

InitRegistry ==
    /\ metrics = EmptyMap
    /\ envOrder = <<>>
    /\ active = 0
    /\ now = 0
    /\ gcTmp = <<>>
    /\ calls = 0
    /\ last = [op |-> "init"]

(* No worker runs in Spec *)
NoWorker ==
    /\ readers = <<>>
    /\ environment = ""
    /\ pfState = "idle"
    /\ pfErr = "none"
    /\ reader = [state |-> "START_RECORD", fields |-> <<>>, field |-> <<>>]
    /\ plabels = EmptyMap
    /\ linesRead = 0
    /\ nonEmpty = 0
    /\ items = 0

(* No worker thread exists in Spec and in SpecWorker *)
NoThreads ==
    /\ pc = EmptyMap
    /\ stop_me = EmptyMap
    /\ connected = EmptyMap
    /\ sleeping = EmptyMap
    /\ cause = EmptyMap
    /\ interrupted = FALSE
    /\ process = "running"

(* No configuration is loaded in Spec and in SpecWorker *)
NoConfig ==
    /\ scrape_config = EmptyMap
    /\ started = EmptyMap

(* No thread is inside a registry operation in the specifications that    *)
(* take the operations as atomic; the lock is free.                        *)
NoCallers ==
    /\ tpc = EmptyMap
    /\ top = EmptyMap
    /\ tleft = EmptyMap
    /\ tloc = EmptyMap
    /\ lock_owner = ""
    /\ lock_readers = 0
    /\ registered = EmptyMap
    /\ ncreated = EmptyMap

Init == InitRegistry /\ NoWorker /\ NoThreads /\ NoConfig /\ NoCallers

(* The module state the observation calls work on *)
Registry ==
    [metrics |-> metrics, envOrder |-> envOrder, active |-> active, err |-> "none"]

MethodResult(r, op, name, labels, amount, t) ==
    CASE op = "inc_counter" -> Inc(r, name, labels, amount, t)
      [] op = "set_gauge" -> SetGauge(r, name, labels, amount, t)
      [] op = "observe" -> Observe(r, name, labels, amount, t)

(* prometheus.inc_counter / set_gauge / observe on the module state st:    *)
(* _get_metrics(labels[ENVIRONMENT]).<method>(full_name, ...). The state   *)
(* afterwards and the error raised.                                        *)
RegistryCall(st, op, name, labels, amount, t) ==
    LET env == labels[ENVIRONMENT]
        res == MethodResult(GetMetrics(st.metrics, env), op, name, labels, amount, t)
    IN [metrics |-> Put(st.metrics, env, res.reg),
        envOrder |-> Created(st.envOrder, env),
        active |-> st.active + res.inc,
        err |-> res.err]

(* A worker thread calls op(name, labels, amount) *)
Call(op, name, labels, amount) ==
    /\ calls < MaxCalls
    /\ LET res == RegistryCall(Registry, op, name, labels, amount, now)
       IN /\ metrics' = res.metrics
          /\ envOrder' = res.envOrder
          /\ active' = res.active
          /\ last' = [op |-> op, env |-> labels[ENVIRONMENT], key |-> <<name, labels>>,
                      amount |-> amount, err |-> res.err]
    /\ calls' = calls + 1
    /\ UNCHANGED <<now, gcTmp, workerVars, threadVars, configVars, lockVars>>

(* prometheus.inc_counter *)
IncCounter(name, labels, amount) == Call("inc_counter", name, labels, amount)

(* prometheus.set_gauge *)
SetGaugeCall(name, labels, amount) == Call("set_gauge", name, labels, amount)

(* prometheus.observe *)
ObserveCall(name, labels, amount) == Call("observe", name, labels, amount)

(* time passes *)
Tick ==
    /\ now < MaxTime
    /\ now' = now + 1
    /\ last' = [op |-> "tick"]
    /\ UNCHANGED <<metrics, envOrder, active, gcTmp, calls, workerVars, threadVars, configVars, lockVars>>

(* prometheus.gc, lines 169-173: tmp = list(_metrics.values()) *)
GcBegin ==
    /\ gcTmp = <<>>
    /\ envOrder # <<>>
    /\ gcTmp' = envOrder
    /\ last' = [op |-> "gc_begin"]
    /\ UNCHANGED <<metrics, envOrder, active, now, calls, workerVars, threadVars, configVars, lockVars>>

(* prometheus.gc, lines 174-175: r.gc() for the next r of tmp; an error    *)
(* raised by r.gc() ends gc().                                             *)
(* A pass that sweeps every sub-registry instead of the one it is at *)
GcPassAll(strict) ==
    /\ gcTmp # <<>>
    /\ LET env == Head(gcTmp)
           res == Gc(metrics[env], active, now, strict)
       IN /\ metrics' = [e \in DOMAIN metrics |->
                            Gc(metrics[e], active, now, strict).reg]
          /\ active' = res.active
          /\ gcTmp' = IF res.err = "none" THEN Tail(gcTmp) ELSE <<>>
          /\ last' = [op |-> "gc", env |-> env, dropped |-> res.dropped,
                      err |-> res.err]
    /\ UNCHANGED <<envOrder, now, calls, workerVars, threadVars, configVars, lockVars>>

(* gc(): one step of the loop over the sub-registries *)
GcPass(strict) ==
    /\ gcTmp # <<>>
    /\ LET env == Head(gcTmp)
           res == Gc(metrics[env], active, now, strict)
       IN /\ metrics' = [metrics EXCEPT ![env] = res.reg]
          /\ active' = res.active
          /\ gcTmp' = IF res.err = "none" THEN Tail(gcTmp) ELSE <<>>
          /\ last' = [op |-> "gc", env |-> env, dropped |-> res.dropped,
                      err |-> res.err]
    /\ UNCHANGED <<envOrder, now, calls, workerVars, threadVars, configVars, lockVars>>

Next ==
    \/ \E n \in Names, l \in LabelMaps, a \in Amounts : IncCounter(n, l, a)
    \/ \E n \in Names, l \in LabelMaps, a \in Amounts : SetGaugeCall(n, l, a)
    \/ \E n \in Names, l \in LabelMaps, a \in Amounts : ObserveCall(n, l, a)
    \/ Tick
    \/ GcBegin
    \/ \E strict \in BOOLEAN : GcPass(strict)

Spec == Init /\ [][Next]_vars

----------------------------------------------------------------------------
(* The line parser (src/parser).                                           *)
(* A line is a sequence of characters; the model's alphabet is a digit,    *)
(* the minus sign, the delimiter and the quote character.                  *)

DIGIT == "1"
MINUS == "-"
DELIMITER == " "
QUOTE == "\""
NEWLINE == "\n"
EOL == "EOL"

Chars == {DIGIT, MINUS, DELIMITER, QUOTE}

Lines == UNION {[1..n -> Chars] : n \in 0..MaxLineLen}

(* csv.reader(file, delimiter=' ', doublequote=False, strict=True): one    *)
(* character of a line, or the EOL the reader feeds after every line.      *)
SaveField(st) == [st EXCEPT !.fields = Append(@, st.field), !.field = <<>>]

AddChar(st, c) == [st EXCEPT !.field = Append(@, c)]

ProcessChar(st, c) ==
    CASE st.state = "START_RECORD" /\ c = EOL -> st
      [] st.state = "START_RECORD" /\ c = NEWLINE -> [st EXCEPT !.state = "EAT_CRNL"]
      [] st.state \in {"START_RECORD", "START_FIELD"} /\ c \notin {EOL, NEWLINE} ->
            IF c = QUOTE THEN [st EXCEPT !.state = "IN_QUOTED_FIELD"]
            ELSE IF c = DELIMITER THEN [SaveField(st) EXCEPT !.state = "START_FIELD"]
            ELSE [AddChar(st, c) EXCEPT !.state = "IN_FIELD"]
      [] st.state \in {"START_FIELD", "IN_FIELD"} /\ c \in {EOL, NEWLINE} ->
            [SaveField(st) EXCEPT
                !.state = IF c = EOL THEN "START_RECORD" ELSE "EAT_CRNL"]
      [] st.state = "IN_FIELD" /\ c \notin {EOL, NEWLINE} ->
            IF c = DELIMITER THEN [SaveField(st) EXCEPT !.state = "START_FIELD"]
            ELSE AddChar(st, c)
      [] st.state = "IN_QUOTED_FIELD" ->
            IF c = EOL THEN st
            ELSE IF c = QUOTE THEN [st EXCEPT !.state = "IN_FIELD"]
            ELSE AddChar(st, c)
      [] st.state = "EAT_CRNL" ->
            IF c = NEWLINE THEN st
            ELSE IF c = EOL THEN [st EXCEPT !.state = "START_RECORD"]
            ELSE [st EXCEPT !.state = "ERROR"]
      [] OTHER -> st

RECURSIVE ProcessChars(_, _)
ProcessChars(st, chars) ==
    IF chars = <<>> THEN st
    ELSE ProcessChars(ProcessChar(st, Head(chars)), Tail(chars))

(* Reader_iternext on one line of the stream: the line ends with a newline *)
ProcessLine(st, line) == ProcessChars(st, line \o <<NEWLINE, EOL>>)

NewReader == [state |-> "START_RECORD", fields |-> <<>>, field |-> <<>>]

(* str.strip / str.split / int / float on a field *)
IsSpace(c) == c \in {DELIMITER, NEWLINE}

RECURSIVE LStrip(_)
LStrip(s) == IF s # <<>> /\ IsSpace(Head(s)) THEN LStrip(Tail(s)) ELSE s

RECURSIVE RStrip(_)
RStrip(s) ==
    IF s # <<>> /\ IsSpace(s[Len(s)]) THEN RStrip(SubSeq(s, 1, Len(s) - 1)) ELSE s

Strip(s) == RStrip(LStrip(s))

RECURSIVE SplitFrom(_, _, _)
SplitFrom(s, word, words) ==
    IF s = <<>>
    THEN IF word = <<>> THEN words ELSE Append(words, word)
    ELSE IF IsSpace(Head(s))
         THEN SplitFrom(Tail(s), <<>>, IF word = <<>> THEN words ELSE Append(words, word))
         ELSE SplitFrom(Tail(s), Append(word, Head(s)), words)

Split(s) == SplitFrom(s, <<>>, <<>>)

RECURSIVE Ones(_)
Ones(k) == IF k = 0 THEN 0 ELSE 10 * Ones(k - 1) + 1

(* int(value): surrounding whitespace, an optional sign, digits *)
ParseNumber(value) ==
    LET t == Strip(value)
        negative == t # <<>> /\ Head(t) = MINUS
        digits == IF negative THEN Tail(t) ELSE t
    IN IF digits # <<>> /\ \A i \in 1..Len(digits) : digits[i] = DIGIT
       THEN [ok |-> TRUE, v |-> IF negative THEN 0 - Ones(Len(digits)) ELSE Ones(Len(digits))]
       ELSE [ok |-> FALSE, v |-> 0]

(* A Metric: labels (the dict it was constructed with, not a copy) and     *)
(* metrics (a new dict, in insertion order as a sequence of name/value).   *)
(* A reader returns the Metric afterwards and whether it raised            *)
(* ParserError.                                                            *)
SetMetric(entry, name, v) ==
    IF \E i \in 1..Len(entry.metrics) : entry.metrics[i].name = name
    THEN [entry EXCEPT !.metrics =
            [i \in 1..Len(@) |-> IF @[i].name = name THEN [name |-> name, v |-> v] ELSE @[i]]]
    ELSE [entry EXCEPT !.metrics = Append(@, [name |-> name, v |-> v])]

(* A label reader that keeps a value the dict already holds *)
LabelReaderKeep(entry, name, value) ==
    IF name \in DOMAIN entry.labels
    THEN entry
    ELSE [entry EXCEPT !.labels = Put(@, name, value)]

LabelReader(entry, name, value) ==
    [entry EXCEPT !.labels = Put(@, name, value)]

RequestHeaderReader(entry, name, value) ==
    LET request == Split(value)
    IN IF Len(request) # 3
       THEN [entry EXCEPT !.err = TRUE]
       ELSE [entry EXCEPT !.labels =
                Put(Put(Put(@, "request_method", request[1]),
                        "request_uri", request[2]),
                    "request_http_version", request[3])]

IntReader(entry, name, value) ==
    LET n == ParseNumber(value)
    IN IF n.ok THEN SetMetric(entry, name, n.v) ELSE [entry EXCEPT !.err = TRUE]

ClfIntReader(entry, name, value) ==
    IF value = <<MINUS>> THEN SetMetric(entry, name, 0) ELSE IntReader(entry, name, value)

(* float(value) accepts, over the model's alphabet, what int(value) does *)
FloatReader(entry, name, value) == IntReader(entry, name, value)

ApplyReader(rd, entry, value) ==
    CASE rd.kind = "label" -> LabelReader(entry, rd.name, value)
      [] rd.kind = "request_header" -> RequestHeaderReader(entry, rd.name, value)
      [] rd.kind = "int" -> IntReader(entry, rd.name, value)
      [] rd.kind = "clf_int" -> ClfIntReader(entry, rd.name, value)
      [] rd.kind = "float" -> FloatReader(entry, rd.name, value)
      [] OTHER -> entry

(* The loop of convert_csv_line from column i on: a reader that raises     *)
(* ends it, with what the earlier readers wrote left in place.             *)
RECURSIVE ApplyReaders(_, _, _, _)
ApplyReaders(rds, line, i, entry) ==
    IF i > Len(rds) \/ entry.err
    THEN entry
    ELSE ApplyReaders(rds, line, i + 1,
                      IF rds[i].kind = "null" THEN entry
                      ELSE ApplyReader(rds[i], entry, line[i]))

(* LogParser.convert_csv_line(line, labels): labels is the dict the        *)
(* Metric keeps and the readers write to.                                  *)
ConvertCsvLine(rds, line, labels) ==
    IF Len(rds) # Len(line)
    THEN [labels |-> labels, metrics |-> <<>>, err |-> TRUE]
    ELSE ApplyReaders(rds, line, 1, [labels |-> labels, metrics |-> <<>>, err |-> FALSE])

----------------------------------------------------------------------------
(* One worker inside logscrape._parse_file *)

LabelCol(name) == [kind |-> "label", name |-> name]
IntCol(name) == [kind |-> "int", name |-> name]
ClfIntCol(name) == [kind |-> "clf_int", name |-> name]
FloatCol(name) == [kind |-> "float", name |-> name]
RequestHeaderCol(name) == [kind |-> "request_header", name |-> name]
NullCol == [kind |-> "null", name |-> ""]

(* The column schemas of the model; "d" is configured as a histogram *)
Schemas ==
    { <<LabelCol("l"), ClfIntCol("n")>>,
      <<FloatCol("d"), NullCol, LabelCol("l")>>,
      <<RequestHeaderCol("r")>>,
      <<IntCol("n")>>,
      <<IntCol("n"), FloatCol("d")>> }

(* The histogram set of the configuration: name -> buckets *)
Histograms == [d |-> <<1, 2>>]

WorkerEnvs == {"p", ""}

(* _parse_file, lines 28-29 *)
EnvOf(env) == IF env = "" THEN "N/A" ELSE env

BaseLabels == [environment |-> EnvOf(environment)]

(* A call of the registry as _parse_file issues it *)
CounterCall(name, labels, amount) ==
    [op |-> "inc_counter", name |-> name, labels |-> labels, amount |-> amount,
     buckets |-> <<>>]

HistogramCall(name, labels, amount, buckets) ==
    [op |-> "observe", name |-> name, labels |-> labels, amount |-> amount,
     buckets |-> buckets]

(* _parse_file issues the call c on the module state st; st.emitted holds  *)
(* the calls issued for the item so far.                                   *)
Issue(st, c, t) ==
    LET res == RegistryCall(st, c.op, c.name, c.labels, c.amount, t)
    IN [metrics |-> res.metrics, envOrder |-> res.envOrder, active |-> res.active,
        err |-> res.err, emitted |-> Append(st.emitted, c)]

(* The branch that sends every numeric field to inc_counter *)
FieldCallAllCounters(name, labels, amount) == CounterCall(name, labels, amount)

(* _parse_file, lines 49-63: the call for one numeric field *)
FieldCall(name, labels, amount) ==
    IF name \notin DOMAIN Histograms
    THEN CounterCall(name, labels, amount)
    ELSE HistogramCall(name, labels, amount, Histograms[name])

(* _parse_file, lines 48-63: the numeric fields of the entry from field i  *)
(* on; an error raised by the registry ends the loop.                      *)
RECURSIVE EmitFields(_, _, _, _, _)
EmitFields(st, fields, i, labels, t) ==
    IF i > Len(fields) \/ st.err # "none"
    THEN st
    ELSE EmitFields(Issue(st, FieldCall(fields[i].name, labels, fields[i].v), t),
                    fields, i + 1, labels, t)

(* _parse_file, lines 38-63: the body of the loop for one item *)
Emit(st, env, entry, t) ==
    LET st0 == [metrics |-> st.metrics, envOrder |-> st.envOrder,
                active |-> st.active, err |-> "none", emitted |-> <<>>]
    IN IF entry.err
       THEN Issue(st0, CounterCall("parser_errors", [environment |-> env], 1), t)
       ELSE EmitFields(Issue(st0, CounterCall("lines_parsed", entry.labels, 1), t),
                       entry.metrics, 1, entry.labels, t)

ItemOf(entry) ==
    IF entry.err THEN [kind |-> "none"]
    ELSE [kind |-> "metric", labels |-> entry.labels, metrics |-> entry.metrics]

InitWorker ==
    /\ InitRegistry
    /\ readers \in Schemas
    /\ environment \in WorkerEnvs
    /\ pfState = "running"
    /\ pfErr = "none"
    /\ reader = NewReader
    /\ plabels = [environment |-> EnvOf(environment)]
    /\ linesRead = 0
    /\ nonEmpty = 0
    /\ items = 0
    /\ NoThreads
    /\ NoConfig
    /\ NoCallers

(* The stream delivers a line: the csv.reader takes it, and when it ends a *)
(* record read_all yields the item and _parse_file records it.             *)
ReadLine(line) ==
    /\ pfState = "running"
    /\ linesRead < MaxLines
    /\ linesRead' = linesRead + 1
    /\ nonEmpty' = IF line = <<>> THEN nonEmpty ELSE nonEmpty + 1
    /\ LET st == ProcessLine(reader, line)
       IN CASE st.state = "START_RECORD" ->
                 LET entry == ConvertCsvLine(readers, st.fields, plabels)
                     res == Emit(Registry, EnvOf(environment), entry, now)
                 IN /\ reader' = NewReader
                    /\ plabels' = entry.labels
                    /\ items' = items + 1
                    /\ metrics' = res.metrics
                    /\ envOrder' = res.envOrder
                    /\ active' = res.active
                    /\ pfState' = IF res.err = "none" THEN "running" ELSE "raised"
                    /\ pfErr' = res.err
                    /\ last' = [op |-> "row", line |-> st.fields, seed |-> plabels,
                                item |-> ItemOf(entry), emitted |-> res.emitted]
            [] st.state = "ERROR" ->
                 /\ pfState' = "raised"
                 /\ pfErr' = "csv.Error"
                 /\ last' = [op |-> "csv_error"]
                 /\ UNCHANGED <<reader, plabels, items, metrics, envOrder, active>>
            [] OTHER ->
                 /\ reader' = st
                 /\ last' = [op |-> "pending"]
                 /\ UNCHANGED <<plabels, items, metrics, envOrder, active, pfState, pfErr>>
    /\ UNCHANGED <<now, gcTmp, calls, readers, environment, threadVars, configVars, lockVars>>

(* The stream ends: the csv.reader raises csv.Error inside a quoted field  *)
(* (strict), which read_all does not catch; else read_all ends.            *)
EndOfStream ==
    /\ pfState = "running"
    /\ IF reader.state = "IN_QUOTED_FIELD" \/ reader.field # <<>>
       THEN pfState' = "raised" /\ pfErr' = "csv.Error"
       ELSE pfState' = "returned" /\ pfErr' = "none"
    /\ last' = [op |-> "eof"]
    /\ UNCHANGED <<regVars, readers, environment, reader, plabels, linesRead, nonEmpty,
                   items, threadVars, configVars, lockVars>>

NextWorker ==
    \/ \E line \in Lines : ReadLine(line)
    \/ EndOfStream

SpecWorker == InitWorker /\ [][NextWorker]_vars

----------------------------------------------------------------------------
(* The worker threads of logscrape: LocalLogThread.run and                 *)
(* SSHLogThread.run. The stream events of a session are the ways           *)
(* _parse_file goes on or ends (SpecWorker: a line is recorded, it         *)
(* returns, it raises) and the read timeout of the channel.                *)

LocalWorkers == {"l1"}
SshWorkers == {"s1", "s2"}
Workers == LocalWorkers \cup SshWorkers

(* sleep(5) of LocalLogThread.run and sleep(1) of SSHLogThread.run *)
LOCAL_BACKOFF == 5
SSH_PAUSE == 1

(* How client.connect ends: it returns, or raises socket.timeout,          *)
(* socket.error, paramiko.SSHException or anything else.                   *)
ConnectOutcomes == {"ok", "socket.timeout", "socket.error", "SSHException", "error"}

(* What happens in exec_command and _parse_file: a line is recorded, the   *)
(* read times out (socket.timeout), _parse_file returns at the end of the  *)
(* stream, or an error is raised.                                          *)
StreamEvents == {"line", "socket.timeout", "returned", "raised"}

InitThreads ==
    /\ InitRegistry
    /\ NoWorker
    /\ NoConfig
    /\ NoCallers
    /\ pc = [w \in Workers |-> "loop"]
    /\ stop_me = [w \in Workers |-> FALSE]
    /\ connected = [w \in Workers |-> FALSE]
    /\ sleeping = [w \in Workers |-> 0]
    /\ cause = [w \in Workers |-> [op |-> "start", outcome |-> "none"]]
    /\ interrupted = FALSE
    /\ process = "running"

(* The owner of the thread sets its stop_me *)
SetStop(w) ==
    /\ process = "running"
    /\ ~stop_me[w]
    /\ stop_me' = [stop_me EXCEPT ![w] = TRUE]
    /\ last' = [op |-> "stop_me", w |-> w]
    /\ UNCHANGED <<regVars, workerVars, configVars, lockVars, pc, connected, sleeping, cause,
                   interrupted, process>>

(* `while not self.stop_me: self._connected = False` of both run loops *)
WhileNotStop(w) ==
    /\ process = "running"
    /\ pc[w] = "loop"
    /\ IF stop_me[w]
       THEN /\ pc' = [pc EXCEPT ![w] = "ended"]
            /\ UNCHANGED connected
       ELSE /\ pc' = [pc EXCEPT ![w] = IF w \in LocalWorkers THEN "spawn" ELSE "connect"]
            /\ connected' = [connected EXCEPT ![w] = FALSE]
    /\ last' = [op |-> "while", w |-> w]
    /\ UNCHANGED <<regVars, workerVars, configVars, lockVars, stop_me, sleeping, cause,
                   interrupted, process>>

(* The handler that goes on without a sleep, as for TimeoutExpired *)
OnSpawnErrorPass == [pc |-> "loop", connected |-> FALSE, sleeping |-> 0]

(* LocalLogThread.run, lines 122-125: the bare except *)
OnSpawnError == [pc |-> "sleep", connected |-> FALSE, sleeping |-> LOCAL_BACKOFF]

(* LocalLogThread.run, lines 112-125: Popen has no keyword `timeout`, the  *)
(* call raises TypeError before a child exists, and the bare except takes  *)
(* it; lines 118-119 are never reached.                                    *)
LocalSpawn(w) ==
    /\ process = "running"
    /\ w \in LocalWorkers
    /\ pc[w] = "spawn"
    /\ pc' = [pc EXCEPT ![w] = OnSpawnError.pc]
    /\ connected' = [connected EXCEPT ![w] = OnSpawnError.connected]
    /\ sleeping' = [sleeping EXCEPT ![w] = OnSpawnError.sleeping]
    /\ cause' = [cause EXCEPT ![w] = [op |-> "spawn", outcome |-> "TypeError"]]
    /\ last' = [op |-> "spawn", w |-> w, outcome |-> "TypeError"]
    /\ UNCHANGED <<regVars, workerVars, configVars, lockVars, stop_me, interrupted, process>>

(* sleep(5) / sleep(1) returns *)
SleepDone(w) ==
    /\ process = "running"
    /\ pc[w] = "sleep"
    /\ pc' = [pc EXCEPT ![w] = "loop"]
    /\ sleeping' = [sleeping EXCEPT ![w] = 0]
    /\ last' = [op |-> "slept", w |-> w]
    /\ UNCHANGED <<regVars, workerVars, configVars, lockVars, stop_me, connected, cause,
                   interrupted, process>>

(* A run loop that retries after every failed connect *)
OnConnectRetryHard(outcome) ==
    CASE outcome = "ok" -> [pc |-> "stream", connected |-> TRUE, interrupt |-> FALSE]
      [] outcome \in {"socket.timeout", "socket.error", "SSHException"} ->
            [pc |-> "loop", connected |-> FALSE, interrupt |-> FALSE]
      [] OTHER -> [pc |-> "crashed", connected |-> FALSE, interrupt |-> TRUE]

(* SSHLogThread.run, lines 167-183 and 193-196: where client.connect       *)
(* leaves the thread.                                                      *)
OnConnect(outcome) ==
    CASE outcome = "ok" -> [pc |-> "stream", connected |-> TRUE, interrupt |-> FALSE]
      [] outcome = "socket.timeout" ->
            [pc |-> "loop", connected |-> FALSE, interrupt |-> FALSE]
      [] outcome \in {"socket.error", "SSHException"} ->
            [pc |-> "ended", connected |-> FALSE, interrupt |-> FALSE]
      [] OTHER -> [pc |-> "crashed", connected |-> FALSE, interrupt |-> TRUE]

(* SSHLogThread.run: a connect attempt *)
SshConnect(w, outcome) ==
    /\ process = "running"
    /\ w \in SshWorkers
    /\ pc[w] = "connect"
    /\ LET res == OnConnect(outcome)
       IN /\ pc' = [pc EXCEPT ![w] = res.pc]
          /\ connected' = [connected EXCEPT ![w] = res.connected]
          /\ interrupted' = (interrupted \/ res.interrupt)
    /\ cause' = [cause EXCEPT ![w] = [op |-> "connect", outcome |-> outcome]]
    /\ last' = [op |-> "connect", w |-> w, outcome |-> outcome]
    /\ UNCHANGED <<regVars, workerVars, configVars, lockVars, stop_me, sleeping, process>>

(* A run loop without the handler of the read timeout *)
OnStreamNoReadTimeout(event) ==
    CASE event = "line" ->
            [pc |-> "stream", connected |-> TRUE, sleeping |-> 0, interrupt |-> FALSE]
      [] event = "returned" ->
            [pc |-> "sleep", connected |-> FALSE, sleeping |-> SSH_PAUSE,
             interrupt |-> FALSE]
      [] OTHER ->
            [pc |-> "crashed", connected |-> TRUE, sleeping |-> 0, interrupt |-> TRUE]

(* A run loop that takes every error of the session and tries again *)
OnStreamSwallow(event) ==
    CASE event = "line" ->
            [pc |-> "stream", connected |-> TRUE, sleeping |-> 0, interrupt |-> FALSE]
      [] event = "returned" ->
            [pc |-> "sleep", connected |-> FALSE, sleeping |-> SSH_PAUSE,
             interrupt |-> FALSE]
      [] OTHER ->
            [pc |-> "loop", connected |-> TRUE, sleeping |-> 0, interrupt |-> FALSE]

(* SSHLogThread.run, lines 183-196: where an event of the session leaves   *)
(* the thread. A line keeps it in _parse_file; socket.timeout is the       *)
(* `continue` of line 190, which skips line 191; the return of _parse_file *)
(* goes on to lines 191-192; any other error reaches the outer except.     *)
OnStream(event) ==
    CASE event = "line" ->
            [pc |-> "stream", connected |-> TRUE, sleeping |-> 0, interrupt |-> FALSE]
      [] event = "socket.timeout" ->
            [pc |-> "loop", connected |-> TRUE, sleeping |-> 0, interrupt |-> FALSE]
      [] event = "returned" ->
            [pc |-> "sleep", connected |-> FALSE, sleeping |-> SSH_PAUSE,
             interrupt |-> FALSE]
      [] OTHER ->
            [pc |-> "crashed", connected |-> TRUE, sleeping |-> 0, interrupt |-> TRUE]

(* SSHLogThread.run: exec_command and _parse_file *)
SshStream(w, event) ==
    /\ process = "running"
    /\ w \in SshWorkers
    /\ pc[w] = "stream"
    /\ LET res == OnStream(event)
       IN /\ pc' = [pc EXCEPT ![w] = res.pc]
          /\ connected' = [connected EXCEPT ![w] = res.connected]
          /\ sleeping' = [sleeping EXCEPT ![w] = res.sleeping]
          /\ interrupted' = (interrupted \/ res.interrupt)
    /\ cause' = [cause EXCEPT ![w] = [op |-> "stream", outcome |-> event]]
    /\ last' = [op |-> "stream", w |-> w, outcome |-> event]
    /\ UNCHANGED <<regVars, workerVars, configVars, lockVars, stop_me, process>>

(* app.py, lines 310-312: KeyboardInterrupt ends the main loop, and the    *)
(* process with its daemon threads.                                        *)
KeyboardInterrupt ==
    /\ process = "running"
    /\ interrupted
    /\ process' = "exited"
    /\ last' = [op |-> "KeyboardInterrupt"]
    /\ UNCHANGED <<regVars, workerVars, configVars, lockVars, pc, stop_me, connected, sleeping,
                   cause, interrupted>>

NextThreads ==
    \/ \E w \in Workers : SetStop(w)
    \/ \E w \in Workers : WhileNotStop(w)
    \/ \E w \in Workers : LocalSpawn(w)
    \/ \E w \in Workers : SleepDone(w)
    \/ \E w \in Workers, outcome \in ConnectOutcomes : SshConnect(w, outcome)
    \/ \E w \in Workers, event \in StreamEvents : SshStream(w, event)
    \/ KeyboardInterrupt

SpecThreads == InitThreads /\ [][NextThreads]_vars

(* The threads and the main thread are scheduled, every sleep returns and  *)
(* every connect attempt ends; nothing makes a stream end.                 *)
FairThreads ==
    /\ WF_vars(KeyboardInterrupt)
    /\ \A w \in Workers :
          /\ WF_vars(WhileNotStop(w))
          /\ WF_vars(LocalSpawn(w))
          /\ WF_vars(SleepDone(w))
          /\ WF_vars(\E outcome \in ConnectOutcomes : SshConnect(w, outcome))

SpecThreadsFair == SpecThreads /\ FairThreads

----------------------------------------------------------------------------
(* app.parse_config: the column schema, the registry and the threads *)

ColNames == {"environment", "parser_errors", "lines_parsed", "in_bytes", "x"}

(* The types of a format entry: those parse_config knows, null ("none")    *)
(* and one it does not know.                                               *)
ColTypes == {"label", "number", "clf_number", "request_header", "none", "other"}

KnownTypes == {"number", "clf_number", "request_header", "label"}

NullEntry == [name |-> "", tp |-> "null"]

FormatEntries == {NullEntry} \cup {[name |-> n, tp |-> t] : n \in ColNames, t \in ColTypes}

Formats == UNION {[1..n -> FormatEntries] : n \in 1..MaxCols}

Paths == {"/a", "/b"}
Hosts == {"h1", "h2"}

(* scrape_config['local']: a list of files *)
LocalLists == UNION {[1..n -> {[path |-> f] : f \in Paths}] : n \in 0..MaxTargets}

HostLists == UNION {[1..n -> Hosts] : n \in 1..MaxTargets}

(* scrape_config['ssh']['environments']: a dict, in the order of its keys *)
SshEnvironments ==
    {<<>>}
    \cup {<<[env |-> "p", hosts |-> h, file |-> "/a"]>> : h \in HostLists}
    \cup {<<[env |-> "p", hosts |-> h, file |-> "/a"],
            [env |-> "s", hosts |-> g, file |-> "/a"]>> : h \in HostLists, g \in HostLists}

Configs ==
    [format : Formats, local : LocalLists, ssh : SshEnvironments]

(* parse_config, lines 241-264: the readers of the format entries from     *)
(* entry i on, or the error one of them raises.                            *)
RECURSIVE ParseFormat(_, _, _)
ParseFormat(format, i, rds) ==
    IF i > Len(format) THEN [err |-> "none", readers |-> rds]
    ELSE LET name == format[i].name
             tp == format[i].tp
         IN CASE tp \in {"null", "none"} -> ParseFormat(format, i + 1, Append(rds, NullCol))
              [] tp = "label" /\ name = "environment" ->
                    [err |-> "ValueError", readers |-> rds]
              [] tp # "label" /\ name \in {"parser_errors", "lines_parsed"} ->
                    [err |-> "ValueError", readers |-> rds]
              [] tp \notin KnownTypes -> [err |-> "KeyError", readers |-> rds]
              [] OTHER ->
                    ParseFormat(format, i + 1, Append(rds, [kind |-> tp, name |-> name]))

LocalThread(file) ==
    [kind |-> "local", target |-> <<"local", "", file.path>>, started |-> TRUE]

SshThread(host, file) ==
    [kind |-> "ssh", target |-> <<"ssh", host, file>>, started |-> TRUE]

(* parse_config, lines 270-274 *)
RECURSIVE LocalThreads(_, _)
LocalThreads(files, i) ==
    IF i > Len(files) THEN <<>>
    ELSE <<LocalThread(files[i])>> \o LocalThreads(files, i + 1)

(* parse_config, lines 286-297: one thread per host of the environment *)
RECURSIVE HostThreads(_, _, _)
HostThreads(hosts, file, i) ==
    IF i > Len(hosts) THEN <<>>
    ELSE <<SshThread(hosts[i], file)>> \o HostThreads(hosts, file, i + 1)

(* parse_config, lines 281-297 *)
RECURSIVE SshThreads(_, _)
SshThreads(envs, i) ==
    IF i > Len(envs) THEN <<>>
    ELSE HostThreads(envs[i].hosts, envs[i].file, 1) \o SshThreads(envs, i + 1)

(* parse_config: how it ends, whether the registry was built and the       *)
(* threads it created and started.                                         *)
ParseConfigResult(cfg) ==
    LET fmt == ParseFormat(cfg.format, 1, <<>>)
    IN IF fmt.err # "none"
       THEN [done |-> TRUE, err |-> fmt.err, readers |-> <<>>, metrics |-> FALSE,
             threads |-> <<>>]
       ELSE [done |-> TRUE, err |-> "none", readers |-> fmt.readers, metrics |-> TRUE,
             threads |-> LocalThreads(cfg.local, 1) \o SshThreads(cfg.ssh, 1)]

InitConfig ==
    /\ InitRegistry
    /\ NoWorker
    /\ NoThreads
    /\ NoCallers
    /\ scrape_config \in Configs
    /\ started = [done |-> FALSE, err |-> "none", readers |-> <<>>, metrics |-> FALSE,
                  threads |-> <<>>]

(* app.py, line 306 *)
ParseConfig ==
    /\ ~started.done
    /\ started' = ParseConfigResult(scrape_config)
    /\ last' = [op |-> "parse_config"]
    /\ UNCHANGED <<regVars, workerVars, threadVars, lockVars, scrape_config>>

NextConfig == ParseConfig

SpecConfig == InitConfig /\ [][NextConfig]_vars

----------------------------------------------------------------------------
(* The registry under concurrent callers: worker threads inside           *)
(* inc_counter, the GC task inside gc() and the HTTP handler inside        *)
(* registries(). A step is what a thread does between two points where     *)
(* another thread can run; a block that runs with an RLock held from its   *)
(* first to its last statement is one step.                                *)

Callers == {"t1", "t2", "t3"}

(* The full metric name and the amount of the inc_counter calls *)
FULL_NAME == "m"

CallerOps ==
    {[kind |-> "inc_counter", env |-> e] : e \in Envs}
    \cup {[kind |-> "gc", env |-> ""], [kind |-> "registries", env |-> ""]}

(* The locals of a caller: whether `key in _metrics` held, the             *)
(* sub-registry _get_metrics returned (environment and creation number),   *)
(* the family self._metrics.get returned, tmp / m, the error raised.       *)
NoLocals ==
    [hit |-> FALSE, got |-> <<>>, counter |-> "unset", tmp |-> <<>>, err |-> "none"]

InitCallers ==
    /\ InitRegistry
    /\ NoWorker
    /\ NoThreads
    /\ NoConfig
    /\ tpc = [t \in Callers |-> "idle"]
    /\ top = [t \in Callers |-> [kind |-> "none", env |-> ""]]
    /\ tleft = [t \in Callers |-> MaxOps]
    /\ tloc = [t \in Callers |-> NoLocals]
    /\ lock_owner = ""
    /\ lock_readers = 0
    /\ registered = EmptyMap
    /\ ncreated = EmptyMap

callerRest == <<now, gcTmp, calls, workerVars, threadVars, configVars>>

(* A thread enters inc_counter, gc or registries *)
Begin(t, op) ==
    /\ tpc[t] = "idle"
    /\ tleft[t] > 0
    /\ tleft' = [tleft EXCEPT ![t] = @ - 1]
    /\ top' = [top EXCEPT ![t] = op]
    /\ tloc' = [tloc EXCEPT ![t] = NoLocals]
    /\ tpc' = [tpc EXCEPT ![t] = "acquire_read"]
    /\ last' = [op |-> "begin", t |-> t]
    /\ UNCHANGED <<metrics, envOrder, active, lock_owner, lock_readers, registered,
                   ncreated, callerRest>>

(* ReadWriteLock.acquire_read: with the RLock of _read_ready held,         *)
(* _readers += 1.                                                          *)
AcquireRead(t) ==
    /\ tpc[t] = "acquire_read"
    /\ lock_owner = ""
    /\ lock_readers' = lock_readers + 1
    /\ tpc' = [tpc EXCEPT ![t] = "read"]
    /\ last' = [op |-> "acquire_read", t |-> t]
    /\ UNCHANGED <<metrics, envOrder, active, top, tleft, tloc, lock_owner, registered,
                   ncreated, callerRest>>

(* list(_metrics.values()): the sub-registries in insertion order *)
Values == [i \in 1..Len(envOrder) |-> <<envOrder[i], ncreated[envOrder[i]]>>]

(* The statements between acquire_read and release_read: the lookup of     *)
(* _get_metrics (lines 153-154), the copy of gc (171) and registries (211) *)
ReadSection(t) ==
    /\ tpc[t] = "read"
    /\ LET key == top[t].env
       IN tloc' = IF top[t].kind = "inc_counter"
                  THEN [tloc EXCEPT ![t].hit = key \in DOMAIN metrics,
                                    ![t].got = IF key \in DOMAIN metrics
                                               THEN <<key, ncreated[key]>>
                                               ELSE <<>>]
                  ELSE [tloc EXCEPT ![t].tmp = Values]
    /\ tpc' = [tpc EXCEPT ![t] = "release_read"]
    /\ last' = [op |-> "read", t |-> t]
    /\ UNCHANGED <<metrics, envOrder, active, top, tleft, lock_owner, lock_readers,
                   registered, ncreated, callerRest>>

(* Where a caller goes on after release_read *)
AfterRead(op, locals) ==
    CASE op.kind = "inc_counter" -> IF locals.hit THEN "inc_get" ELSE "acquire_write"
      [] op.kind = "gc" -> "gc_pass"
      [] OTHER -> "idle"

(* ReadWriteLock.release_read: with the RLock held, _readers -= 1 and      *)
(* notifyAll() when no reader is left.                                     *)
ReleaseRead(t) ==
    /\ tpc[t] = "release_read"
    /\ lock_owner = ""
    /\ lock_readers' = lock_readers - 1
    /\ tpc' = [u \in Callers |->
                 IF u = t THEN AfterRead(top[t], tloc[t])
                 ELSE IF lock_readers = 1 /\ tpc[u] = "wait" THEN "notified"
                 ELSE tpc[u]]
    /\ last' = IF top[t].kind = "registries"
               THEN [op |-> "registries", t |-> t, result |-> tloc[t].tmp]
               ELSE [op |-> "release_read", t |-> t]
    /\ UNCHANGED <<metrics, envOrder, active, top, tleft, tloc, lock_owner, registered,
                   ncreated, callerRest>>

(* An acquire_write that does not wait for the readers to leave *)
WhileReadersSkipped(n) == "write"

(* ReadWriteLock.acquire_write, lines 138-139: `while self._readers > 0:   *)
(* self._read_ready.wait()`, tested with the RLock held.                   *)
WhileReaders(n) == IF n > 0 THEN "wait" ELSE "write"

(* ReadWriteLock.acquire_write: the RLock is taken (line 137, or on the    *)
(* way out of wait()), the loop test follows; wait() gives the RLock back. *)
AcquireWrite(t) ==
    /\ tpc[t] \in {"acquire_write", "notified"}
    /\ lock_owner = ""
    /\ tpc' = [tpc EXCEPT ![t] = WhileReaders(lock_readers)]
    /\ lock_owner' = IF WhileReaders(lock_readers) = "write" THEN t ELSE ""
    /\ last' = [op |-> "acquire_write", t |-> t]
    /\ UNCHANGED <<metrics, envOrder, active, top, tleft, tloc, lock_readers, registered,
                   ncreated, callerRest>>

(* A defaultdict that calls the factory on every lookup *)
MissingAlways(m, key) == TRUE

(* defaultdict.__getitem__: the factory is called for a key the dict does  *)
(* not hold.                                                               *)
Missing(m, key) == key \notin DOMAIN m

Count(n, key) == IF key \in DOMAIN n THEN n[key] ELSE 0

(* _get_metrics, line 160: `return _metrics[key]` with the write lock held *)
WriteSection(t) ==
    /\ tpc[t] = "write"
    /\ LET key == top[t].env
           made == Missing(metrics, key)
       IN /\ metrics' = IF made THEN Put(metrics, key, NewMetricGC) ELSE metrics
          /\ envOrder' = Created(envOrder, key)
          /\ ncreated' = IF made THEN Put(ncreated, key, Count(ncreated, key) + 1)
                         ELSE ncreated
          /\ registered' = IF made THEN Put(registered, key, {}) ELSE registered
          /\ tloc' = [tloc EXCEPT ![t].got = <<key, ncreated'[key]>>]
    /\ tpc' = [tpc EXCEPT ![t] = "release_write"]
    /\ last' = [op |-> "write", t |-> t]
    /\ UNCHANGED <<active, top, tleft, lock_owner, lock_readers, callerRest>>

(* ReadWriteLock.release_write *)
ReleaseWrite(t) ==
    /\ tpc[t] = "release_write"
    /\ lock_owner' = ""
    /\ tpc' = [tpc EXCEPT ![t] = "inc_get"]
    /\ last' = [op |-> "release_write", t |-> t]
    /\ UNCHANGED <<metrics, envOrder, active, top, tleft, tloc, lock_readers, registered,
                   ncreated, callerRest>>

(* _MetricGC.inc, lines 61-62: counter = self._metrics.get(full_name) *)
IncGet(t) ==
    /\ tpc[t] = "inc_get"
    /\ LET found == FULL_NAME \in DOMAIN metrics[top[t].env].fams
       IN /\ tloc' = [tloc EXCEPT ![t].counter = IF found THEN "found" ELSE "None"]
          /\ tpc' = [tpc EXCEPT ![t] = IF found THEN "inc_locked" ELSE "inc_new"]
    /\ last' = [op |-> "inc_get", t |-> t]
    /\ UNCHANGED <<metrics, envOrder, active, top, tleft, lock_owner, lock_readers,
                   registered, ncreated, callerRest>>

(* _MetricGC.inc, lines 63-64: Counter(full_name, ..,                      *)
(* registry=self._registry). CollectorRegistry.register raises ValueError  *)
(* for a name it holds already; the error leaves inc_counter.              *)
IncNew(t) ==
    /\ tpc[t] = "inc_new"
    /\ LET env == top[t].env
       IN IF FULL_NAME \in registered[env]
          THEN /\ tloc' = [tloc EXCEPT ![t].err = "ValueError"]
               /\ tpc' = [tpc EXCEPT ![t] = "idle"]
               /\ last' = [op |-> "inc_counter", t |-> t, env |-> env,
                           err |-> "ValueError"]
               /\ UNCHANGED registered
          ELSE /\ registered' = [registered EXCEPT ![env] = @ \cup {FULL_NAME}]
               /\ tpc' = [tpc EXCEPT ![t] = "inc_store"]
               /\ last' = [op |-> "inc_new", t |-> t]
               /\ UNCHANGED tloc
    /\ UNCHANGED <<metrics, envOrder, active, top, tleft, lock_owner, lock_readers,
                   ncreated, callerRest>>

(* _MetricGC.inc, line 65: self._metrics[full_name] = counter *)
IncStore(t) ==
    /\ tpc[t] = "inc_store"
    /\ LET env == top[t].env
       IN metrics' = [metrics EXCEPT ![env].fams =
                         Put(@, FULL_NAME, NewFamily("counter", [environment |-> env]))]
    /\ tpc' = [tpc EXCEPT ![t] = "inc_locked"]
    /\ last' = [op |-> "inc_store", t |-> t]
    /\ UNCHANGED <<envOrder, active, top, tleft, tloc, lock_owner, lock_readers,
                   registered, ncreated, callerRest>>

(* _MetricGC.inc, lines 67-72: the block under self._lock *)
IncLocked(t) ==
    /\ tpc[t] = "inc_locked"
    /\ LET env == top[t].env
           res == Inc(metrics[env], FULL_NAME, [environment |-> env], 1, now)
       IN /\ metrics' = [metrics EXCEPT ![env] = res.reg]
          /\ active' = active + res.inc
          /\ tloc' = [tloc EXCEPT ![t].err = res.err]
          /\ last' = [op |-> "inc_counter", t |-> t, env |-> env, err |-> res.err]
    /\ tpc' = [tpc EXCEPT ![t] = "idle"]
    /\ UNCHANGED <<envOrder, top, tleft, lock_owner, lock_readers, registered, ncreated,
                   callerRest>>

(* prometheus.gc, lines 174-175: r.gc() for the next r of tmp *)
GcOfCaller(t, strict) ==
    /\ tpc[t] = "gc_pass"
    /\ IF tloc[t].tmp = <<>>
       THEN /\ tpc' = [tpc EXCEPT ![t] = "idle"]
            /\ last' = [op |-> "gc_end", t |-> t]
            /\ UNCHANGED <<metrics, active, tloc>>
       ELSE LET env == Head(tloc[t].tmp)[1]
                res == Gc(metrics[env], active, now, strict)
            IN /\ metrics' = [metrics EXCEPT ![env] = res.reg]
               /\ active' = res.active
               /\ tloc' = [tloc EXCEPT ![t].tmp = IF res.err = "none" THEN Tail(@) ELSE <<>>,
                                       ![t].err = res.err]
               /\ last' = [op |-> "gc", t |-> t, env |-> env, dropped |-> res.dropped,
                           err |-> res.err]
               /\ UNCHANGED tpc
    /\ UNCHANGED <<envOrder, top, tleft, lock_owner, lock_readers, registered, ncreated,
                   callerRest>>

NextCallers ==
    \/ \E t \in Callers, op \in CallerOps : Begin(t, op)
    \/ \E t \in Callers : AcquireRead(t)
    \/ \E t \in Callers : ReadSection(t)
    \/ \E t \in Callers : ReleaseRead(t)
    \/ \E t \in Callers : AcquireWrite(t)
    \/ \E t \in Callers : WriteSection(t)
    \/ \E t \in Callers : ReleaseWrite(t)
    \/ \E t \in Callers : IncGet(t)
    \/ \E t \in Callers : IncNew(t)
    \/ \E t \in Callers : IncStore(t)
    \/ \E t \in Callers : IncLocked(t)
    \/ \E t \in Callers, strict \in BOOLEAN : GcOfCaller(t, strict)

SpecCallers == InitCallers /\ [][NextCallers]_vars

----------------------------------------------------------------------------
(* Shorthands of the properties *)

ObservationOps == {"inc_counter", "set_gauge", "observe"}

(* A step of GcPass: the only action that shortens or clears gcTmp *)
GcPassStep == gcTmp # <<>> /\ gcTmp' # gcTmp

(* A step of an observation call *)
CallStep == calls' = calls + 1

EntryOf(r, key) == r.ttl[TtlIndex(r, key)]

HasSeries(r, key) ==
    /\ key[1] \in DOMAIN r.fams
    /\ key[2] \in DOMAIN r.fams[key[1]].series

SeriesOf(r, key) == r.fams[key[1]].series[key[2]]

RECURSIVE SumLen(_, _)
SumLen(m, order) ==
    IF order = <<>> THEN 0 ELSE Len(m[Head(order)].ttl) + SumLen(m, Tail(order))

TrackedTotal == SumLen(metrics, envOrder)

----------------------------------------------------------------------------
(* C1: after a gc() pass over a sub-registry that ran at time now, every   *)
(* series with last_touched + ttl < now is gone from the series table and  *)
(* from its family, and every other series is still tracked with the same  *)
(* last_touched and its value unchanged.                                   *)
C1_TtlEviction ==
    [][(GcPassStep /\ last'.err = "none") =>
        LET env == Head(gcTmp)
            pre == metrics[env]
            post == metrics'[env]
        IN \A i \in 1..Len(pre.ttl) :
              LET entry == pre.ttl[i]
              IN IF Expired(entry, now)
                 THEN ~Tracked(post, entry.key) /\ ~HasSeries(post, entry.key)
                 ELSE /\ Tracked(post, entry.key)
                      /\ EntryOf(post, entry.key).last = entry.last
                      /\ HasSeries(pre, entry.key) =>
                            /\ HasSeries(post, entry.key)
                            /\ SeriesOf(post, entry.key) = SeriesOf(pre, entry.key)
    ]_vars

(* C2: every observation call sets the last_touched of its series to the   *)
(* time of the call.                                                       *)
C2_TouchedOnEveryObservation ==
    last.op \in ObservationOps =>
        LET r == metrics[last.env]
        IN /\ Tracked(r, last.key)
           /\ EntryOf(r, last.key).last = now

(* C3: every observe call on a histogram series adds one to the series'    *)
(* observation count and its value to the series' sum, so that k calls     *)
(* leave count k and the sum of the k values.                              *)
C3_ObserveRecords ==
    [][(CallStep /\ last'.op = "observe" /\ last'.err = "none") =>
        LET key == last'.key
            post == metrics'[last'.env]
            fam == post.fams[key[1]]
            before == IF last'.env \in DOMAIN metrics
                         /\ HasSeries(metrics[last'.env], key)
                      THEN SeriesOf(metrics[last'.env], key)
                      ELSE ZeroChild
        IN (fam.kind = "histogram" /\ LabelsOk(fam, key[2])) =>
              /\ HasSeries(post, key)
              /\ SeriesOf(post, key).count = before.count + 1
              /\ SeriesOf(post, key).sum = FloatAdd(before.sum, last'.amount)
    ]_vars

(* C4: whenever no registry call is in progress, scraper_active_metrics    *)
(* equals the number of series tracked in all sub-registries.              *)
C4_ActiveEqualsTracked ==
    gcTmp = <<>> => active = TrackedTotal

(* C5: every series is stored in the sub-registry of its environment       *)
(* label, and the gc pass of one sub-registry leaves every other           *)
(* sub-registry (series table, families, values) unchanged.                *)
C5_EnvironmentIsolation ==
    [][/\ \A e \in DOMAIN metrics' :
            /\ \A i \in 1..Len(metrics'[e].ttl) :
                  metrics'[e].ttl[i].key[2][ENVIRONMENT] = e
            /\ \A n \in DOMAIN metrics'[e].fams :
                  \A l \in DOMAIN metrics'[e].fams[n].series : l[ENVIRONMENT] = e
       /\ GcPassStep =>
            \A e \in DOMAIN metrics : e # Head(gcTmp) => metrics'[e] = metrics[e]
    ]_vars

(* C5 witness: a pass over one sub-registry dropped a series while another *)
(* sub-registry tracks series.                                             *)
C5_Witness ==
    /\ last.op = "gc"
    /\ last.dropped > 0
    /\ \E e \in DOMAIN metrics : e # last.env /\ metrics[e].ttl # <<>>

(* C6: a call whose label names differ from those of the family of its     *)
(* name ends in an error, and no call changes the label names of an        *)
(* existing family.                                                        *)
C6_LabelNamesFixed ==
    [][CallStep =>
        LET key == last'.key
            env == last'.env
        IN /\ DOMAIN key[2] # metrics'[env].fams[key[1]].labelnames
                => last'.err # "none"
           /\ (env \in DOMAIN metrics /\ key[1] \in DOMAIN metrics[env].fams)
                => metrics'[env].fams[key[1]].labelnames
                     = metrics[env].fams[key[1]].labelnames
    ]_vars

(* The counters of the worker's environment *)
WorkerReg == GetMetrics(metrics, EnvOf(environment))

RECURSIVE SumOver(_, _)
SumOver(series, S) ==
    IF S = {} THEN 0
    ELSE LET l == CHOOSE x \in S : TRUE
         IN series[l].sum + SumOver(series, S \ {l})

FamilyTotal(r, name) ==
    IF name \in DOMAIN r.fams
    THEN SumOver(r.fams[name].series, DOMAIN r.fams[name].series)
    ELSE 0

ParserErrors == FamilyTotal(WorkerReg, "parser_errors")

LinesParsed == FamilyTotal(WorkerReg, "lines_parsed")

(* The entry computed for the row from the base labels alone *)
FreshEntry(row) == ConvertCsvLine(readers, row, BaseLabels)

(* C7: read_all emits exactly one item for every input line, so that       *)
(* between records the number of items equals the number of lines read;    *)
(* the item is a Metric when the token count equals the number of readers  *)
(* and every reader succeeds, and the sentinel otherwise.                  *)
C7_OneItemPerLine ==
    /\ reader.state = "START_RECORD" => items = linesRead
    /\ last.op = "row" =>
          (last.item.kind = "metric")
             = (Len(last.line) = Len(readers) /\ ~FreshEntry(last.line).err)

(* C8: the labels and numeric fields of the Metric emitted for a row are   *)
(* those computed from the row's tokens and the base labels alone,         *)
(* whatever the rows before it left in the parser's label dict; and the    *)
(* row is the sentinel exactly when that computation fails.                *)
C8_NoPartialStateLeaks ==
    last.op = "row" =>
        /\ last.item = ItemOf(FreshEntry(last.line))
        /\ last.item.kind = "metric" => plabels = last.item.labels

(* C8 witness: the only row parsed so far is emitted as a Metric although  *)
(* a row that failed part-way left another label value in the dict.        *)
C8_Witness ==
    /\ last.op = "row"
    /\ last.item.kind = "metric"
    /\ LinesParsed = 1
    /\ ParserErrors = 1
    /\ DOMAIN last.seed = DOMAIN last.item.labels
    /\ last.seed # last.item.labels

(* C9: no tokenizer error (csv.Error) propagates out of read_all into the  *)
(* worker.                                                                 *)
C9_NoErrorEscapes ==
    pfErr # "csv.Error"

(* C10: between records, when only non-empty lines were consumed,          *)
(* parser_errors + the sum of lines_parsed over the label tuples of the    *)
(* worker's environment equals the number of non-empty lines consumed.     *)
C10_CountsMatchLines ==
    (reader.state = "START_RECORD" /\ nonEmpty = linesRead) =>
        ParserErrors + LinesParsed = nonEmpty

(* A step of ReadLine that ends a record: read_all yields an item and      *)
(* _parse_file records it.                                                 *)
RowStep == items' = items + 1

CounterValue(r, name, labels) ==
    IF HasSeries(r, <<name, labels>>) THEN SeriesOf(r, <<name, labels>>).sum ELSE 0

(* The calls before the i-th of the sequence all returned: every one but   *)
(* the last of the calls issued did.                                       *)
IssuedAll(em, n, raised) == Len(em) = n \/ (raised /\ Len(em) < n)

ConnectStep(w, outcomes) ==
    /\ pc[w] = "connect"
    /\ last'.op = "connect"
    /\ last'.w = w
    /\ last'.outcome \in outcomes

StreamStep(w, events) ==
    /\ pc[w] = "stream"
    /\ last'.op = "stream"
    /\ last'.w = w
    /\ last'.outcome \in events

HardFailures == {"socket.error", "SSHException"}

(* The rest of the program is untouched by a step of worker w *)
OthersUntouched(w) ==
    /\ \A v \in Workers \ {w} :
          /\ pc'[v] = pc[v]
          /\ connected'[v] = connected[v]
          /\ stop_me'[v] = stop_me[v]
    /\ interrupted' = interrupted
    /\ process' = process

(* C12: the worker observes stop_me after each line batch: once the flag   *)
(* is set, the next line the session delivers is the last it takes before  *)
(* the run loop looks at the flag, so that the loop ends and a join        *)
(* returns.                                                                *)
C12_StopObservedAfterBatch ==
    [][\A w \in Workers :
          (stop_me[w] /\ StreamStep(w, {"line"})) => pc'[w] # "stream"
    ]_vars

(* C13: a connect attempt of an SSH worker that fails with a socket error  *)
(* or an SSH protocol error ends the run loop of that worker with          *)
(* is_connected false, the worker makes no further connect attempt, and    *)
(* the process and the other workers are left as they were.                *)
C13_HardFailureIsTerminal ==
    [][\A w \in SshWorkers :
          /\ ConnectStep(w, HardFailures) =>
                /\ pc'[w] = "ended"
                /\ ~connected'[w]
                /\ OthersUntouched(w)
          /\ pc[w] = "ended" => (pc'[w] = "ended" /\ connected'[w] = connected[w])
    ]_vars

(* C13 witness: one SSH worker has ended on a hard failure while the other *)
(* streams and the process runs.                                           *)
C13_Witness ==
    /\ pc["s1"] = "ended"
    /\ cause["s1"] = [op |-> "connect", outcome |-> "socket.error"]
    /\ ~stop_me["s1"]
    /\ pc["s2"] = "stream"
    /\ process = "running"

(* C14: a connect timeout and a read timeout of an SSH worker lead back to *)
(* the head of the run loop without ending the worker or interrupting the  *)
(* process, and from there, while stop_me is not set, the worker goes on   *)
(* to a fresh connect attempt and nowhere else.                            *)
C14_TimeoutsReconnect ==
    [][\A w \in SshWorkers :
          /\ (ConnectStep(w, {"socket.timeout"}) \/ StreamStep(w, {"socket.timeout"})) =>
                /\ pc'[w] = "loop"
                /\ OthersUntouched(w)
          /\ (pc[w] = "loop" /\ ~stop_me[w] /\ pc'[w] # "loop") => pc'[w] = "connect"
    ]_vars

(* C14 witness: one SSH worker is in a fresh connect attempt after a read  *)
(* timeout, the other after a connect timeout.                             *)
C14_Witness ==
    /\ pc["s1"] = "connect"
    /\ cause["s1"] = [op |-> "stream", outcome |-> "socket.timeout"]
    /\ pc["s2"] = "connect"
    /\ cause["s2"] = [op |-> "connect", outcome |-> "socket.timeout"]
    /\ process = "running"

(* C15: any other error raised in the run loop of an SSH worker, in the    *)
(* connect or while lines are parsed and recorded, interrupts the main     *)
(* thread and stops the worker for good (it is not retried), and the       *)
(* interrupt ends the process.                                             *)
C15_FailLoud ==
    /\ [][\A w \in SshWorkers :
             /\ (ConnectStep(w, {"error"}) \/ StreamStep(w, {"raised"})) =>
                   (pc'[w] = "crashed" /\ interrupted')
             /\ pc[w] = "crashed" => pc'[w] = "crashed"
       ]_vars
    /\ (interrupted ~> process = "exited")

(* C15 witness: the process has exited after an SSH worker crashed while   *)
(* parsing and recording lines.                                            *)
C15_Witness ==
    /\ process = "exited"
    /\ \E w \in SshWorkers :
          /\ pc[w] = "crashed"
          /\ cause[w] = [op |-> "stream", outcome |-> "raised"]

C17_ConnectedOnlyInSession ==
    \A w \in Workers :
        pc[w] \in {"spawn", "connect", "sleep", "ended"} => ~connected[w]

(* The columns of the format that use a reserved name *)
ReservedColumns(format) ==
    {i \in 1..Len(format) :
        \/ format[i].tp = "label" /\ format[i].name = "environment"
        \/ /\ format[i].tp \in {"number", "clf_number"}
           /\ format[i].name \in {"parser_errors", "lines_parsed", "in_bytes"}}

(* C18: parse_config rejects a format that declares `environment` as a     *)
(* label or parser_errors, lines_parsed or in_bytes as a non-label         *)
(* column: it ends with an error, with no registry built and no thread     *)
(* created or started.                                                     *)
C18_ReservedNamesRejected ==
    (started.done /\ ReservedColumns(scrape_config.format) # {}) =>
        /\ started.err # "none"
        /\ ~started.metrics
        /\ started.threads = <<>>

(* The target ids of the configuration *)
TargetsOf(cfg) ==
    {<<"local", "", cfg.local[i].path>> : i \in 1..Len(cfg.local)}
    \cup UNION {{<<"ssh", cfg.ssh[i].hosts[j], cfg.ssh[i].file>> :
                    j \in 1..Len(cfg.ssh[i].hosts)} : i \in 1..Len(cfg.ssh)}

(* C19: when parse_config has loaded the configuration, exactly one thread *)
(* is started for every target id of it, and none for anything else.       *)
C19_OneWorkerPerTarget ==
    (started.done /\ started.err = "none") =>
        /\ \A t \in TargetsOf(scrape_config) :
              Cardinality({i \in 1..Len(started.threads) :
                              started.threads[i].target = t
                              /\ started.threads[i].started}) = 1
        /\ \A i \in 1..Len(started.threads) :
              started.threads[i].target \in TargetsOf(scrape_config)

(* inc_counter(name, labels, a) called k times in a row on the state st *)
RECURSIVE IncTimes(_, _, _, _, _, _)
IncTimes(st, k, name, labels, a, t) ==
    IF k = 0
    THEN st
    ELSE IncTimes(RegistryCall(st, "inc_counter", name, labels, a, t),
                  k - 1, name, labels, a, t)

(* The registry state without the last_touched times: sub-registries in    *)
(* creation order, families with their series and values, the tracked      *)
(* keys, scraper_active_metrics.                                           *)
ModuloTouched(st) ==
    [envOrder |-> st.envOrder,
     active |-> st.active,
     fams |-> [e \in DOMAIN st.metrics |-> st.metrics[e].fams],
     keys |-> [e \in DOMAIN st.metrics |->
                 [i \in 1..Len(st.metrics[e].ttl) |-> st.metrics[e].ttl[i].key]]]

(* k calls of inc_counter with amount a against one call with k * a *)
IncAdditive(name, labels, a, k) ==
    ModuloTouched(IncTimes(Registry, k, name, labels, a, now))
        = ModuloTouched(RegistryCall(Registry, "inc_counter", name, labels,
                                     FloatMul(k, a), now))

(* The amounts of the comparison: the whole amounts of the calls and the   *)
(* float 1.0000000000000007, which is 1 + 3 * 2^-52.                       *)
FloatAmounts == Amounts \cup {1 + 3 * ULP}

Ended(t, e) ==
    /\ top[t].kind = "inc_counter"
    /\ top[t].env = e
    /\ tpc[t] = "idle"

(* C21: for every interleaving of inc_counter calls on one full name in    *)
(* one sub-registry no call fails, and the one family of the name holds    *)
(* the observation of every call that has ended.                           *)
C21_FamilyCreationRaceFree ==
    /\ \A t \in DOMAIN tloc : tloc[t].err = "none"
    /\ \A e \in DOMAIN metrics :
          CounterValue(metrics[e], FULL_NAME, [environment |-> e])
              = Cardinality({t \in DOMAIN tpc : Ended(t, e)})

(* The sub-registries created so far, by environment and creation number *)
EverCreated == UNION {{<<e, n>> : n \in 1..ncreated[e]} : e \in DOMAIN ncreated}

Range(seq) == {seq[i] : i \in 1..Len(seq)}

(* A caller between acquire_read and release_read of gc or registries, its *)
(* copy of the sub-registries made                                         *)
HasCopy(t) ==
    /\ top[t].kind \in {"gc", "registries"}
    /\ tpc[t] = "release_read"

(* C22: at most one sub-registry is ever created for an environment,       *)
(* every caller of _get_metrics for it has got that one, and every copy    *)
(* gc() and registries() make holds every sub-registry created before.     *)
C22_OneSubRegistryPerEnvironment ==
    /\ \A e \in DOMAIN ncreated : ncreated[e] <= 1
    /\ \A t \in DOMAIN tloc :
          tloc[t].got # <<>> =>
              /\ top[t].env \in DOMAIN metrics
              /\ tloc[t].got = <<top[t].env, 1>>
    /\ \A t \in DOMAIN tpc : HasCopy(t) => EverCreated \subseteq Range(tloc[t].tmp)

(* C22 witness: two callers for one environment both missed the lookup     *)
(* under the read lock, both have got the sub-registry, and registries()   *)
(* of a third thread has copied it.                                        *)
C22_Witness ==
    \E t \in DOMAIN tloc, u \in DOMAIN tloc, v \in DOMAIN tloc :
        /\ t # u
        /\ top[t].kind = "inc_counter" /\ top[u].kind = "inc_counter"
        /\ top[t].env = top[u].env
        /\ ~tloc[t].hit /\ ~tloc[u].hit
        /\ tloc[t].got # <<>> /\ tloc[t].got = tloc[u].got
        /\ HasCopy(v)
        /\ tloc[t].got \in Range(tloc[v].tmp)

HoldsRead(t) == tpc[t] \in {"read", "release_read"}

HoldsWrite(t) == tpc[t] \in {"write", "release_write"}

(* C23: while a thread holds the write lock no other thread holds a read   *)
(* lock or the write lock, and _readers counts the threads that hold a     *)
(* read lock.                                                              *)
C23_MutualExclusion ==
    /\ \A t \in DOMAIN tpc :
          HoldsWrite(t) =>
              \A u \in DOMAIN tpc \ {t} : ~HoldsRead(u) /\ ~HoldsWrite(u)
    /\ lock_readers = Cardinality({t \in DOMAIN tpc : HoldsRead(t)})

(* C23 witness: acquire_write has just returned to a thread, which holds   *)
(* the write lock while another thread stands at acquire_read.             *)
C23_Witness ==
    \E t \in DOMAIN tpc, u \in DOMAIN tpc :
        /\ t # u
        /\ HoldsWrite(t)
        /\ last = [op |-> "acquire_write", t |-> t]
        /\ tpc[u] = "acquire_read"

(* C24: a call that raises ValueError for its label names leaves the       *)
(* series table of its sub-registry and scraper_active_metrics as they     *)
(* were before the call.                                                   *)
C24_StateUnchangedOnError ==
    [][(CallStep /\ last'.err = "ValueError") =>
          /\ active' = active
          /\ last'.env \in DOMAIN metrics
          /\ metrics'[last'.env].ttl = metrics[last'.env].ttl
    ]_vars

(* C25: a worker whose run loop has ended, after it saw stop_me or after   *)
(* an SSH hard failure, has is_connected = false.                          *)
C25_EndedIsDisconnected ==
    \A w \in DOMAIN pc : pc[w] = "ended" => ~connected[w]

====
